---- MODULE Spec2Model ----
(***************************************************************************)
(* conv-wd: scoped directory handles.  A handle (util::path::Path, wrapped *)
(* by Directory) splits a target path into an existing base_path and a     *)
(* list of pending subdirs, creates the pending part on initialize() and   *)
(* removes it bottom-up on remove() / drop.  The file system is a tree of  *)
(* nodes; paths are sequences of components as std::path sees them.        *)
(***************************************************************************)
EXTENDS Integers, Sequences, FiniteSets, TLC

VARIABLES fs, hd, last, ext, foreign, steps

vars == <<fs, hd, last, ext, foreign, steps>>

\* ---------------------------------------------------------------- bounds
MaxDepth == 3        \* deepest file-system node of the model
MaxExt == 1          \* file-system changes made by other actors
MaxSteps == 6        \* operations in one run
MaxLen == 3          \* most components after the root of a path resolved in SpecResolve
ExtDepth == 2        \* deepest node other actors populate in SpecResolve

Names == {"a", "b"}
Handles == {1, 2}
ROOT == "/"
PARENT == ".."
Components == Names \cup {PARENT}
GITIGNORE == ".gitignore"
\* a regular file is represented by its content: IGNORE_ALL, or "file" for
\* any other content
IGNORE_ALL == "*\n"
FileKinds == {"file", IGNORE_ALL}
\* file names handed to the structured writers, and the extension write_json
\* forces
DataNames == {"data", "data.json", "data.txt"}
JSON == "json"
CLEAN_ON_INIT_DEFAULT == FALSE
GITIGNORE_ON_INIT_DEFAULT == FALSE

ENOENT == <<"!enoent">>
ENOTDIR == <<"!enotdir">>

Front(s) == SubSeq(s, 1, Len(s) - 1)
Last(s) == s[Len(s)]
IsPrefix(s, t) == Len(s) <= Len(t) /\ SubSeq(t, 1, Len(s)) = s

\* ------------------------------------------------------- file-system tree
\* directories carry the names of Names; GITIGNORE and the names of DataNames
\* occur as a last name only
PlainNodes == UNION {[1..n -> Names] : n \in 0..MaxDepth}
LeafNames == {GITIGNORE} \cup DataNames
IsNode(n) ==
    /\ Len(n) <= MaxDepth
    /\ \A i \in 1..Len(n) : n[i] \in Names \/ (i = Len(n) /\ n[i] \in LeafNames)
Nodes == PlainNodes \cup {Append(n, c) : n \in {m \in PlainNodes : Len(m) < MaxDepth},
                                        c \in LeafNames}
Cwd == <<>>
NodeParent(n) == IF n = <<>> THEN <<>> ELSE Front(n)
Children(n) == {Append(n, c) : c \in Names \cup LeafNames} \cap Nodes
Entries(f, n) == {c \in Children(n) : f[c] # "none"}
NameCount(p) == Cardinality({i \in 1..Len(p) : p[i] \in Names})

\* ------------------------------------------------- std::path::Path algebra
has_parent(p) == p # <<>> /\ Last(p) # ROOT
parent(p) == Front(p)
has_file_name(p) == p # <<>> /\ Last(p) \in Names
file_name(p) == Last(p)
push(p, s) == Append(p, s)
pop(p) == IF has_parent(p) THEN parent(p) ELSE p

\* ------------------------------------------------------- path resolution
RECURSIVE Walk(_, _, _)
Walk(f, cur, rest) ==
    IF rest = <<>> THEN cur
    ELSE IF f[cur] # "dir" THEN ENOTDIR
    ELSE LET c == Head(rest)
             nxt == IF c = PARENT THEN NodeParent(cur) ELSE Append(cur, c)
         IN  IF ~IsNode(nxt) THEN ENOENT
             ELSE IF f[nxt] = "none" THEN ENOENT
             ELSE Walk(f, nxt, Tail(rest))

Lookup(f, p) ==
    IF p = <<>> THEN ENOENT
    ELSE IF Head(p) = ROOT THEN Walk(f, <<>>, Tail(p))
    ELSE Walk(f, Cwd, p)

exists(f, p) == Lookup(f, p) \notin {ENOENT, ENOTDIR}
is_dir(f, p) == exists(f, p) /\ f[Lookup(f, p)] = "dir"
is_file(f, p) == exists(f, p) /\ f[Lookup(f, p)] \in FileKinds

\* ----------------------------------------------------------- std::fs calls
\* variant: deletes the directory together with whatever is below it
remove_dir_all(f, p) ==
    IF p # <<>> /\ Last(p) \in Names /\ is_dir(f, p)
    THEN [ok |-> TRUE,
          fs |-> [n \in Nodes |-> IF IsPrefix(Lookup(f, p), n) THEN "none" ELSE f[n]]]
    ELSE [ok |-> FALSE, fs |-> f]

remove_dir(f, p) ==
    IF p # <<>> /\ Last(p) \in Names /\ is_dir(f, p) /\ Entries(f, Lookup(f, p)) = {}
    THEN [ok |-> TRUE, fs |-> [f EXCEPT ![Lookup(f, p)] = "none"]]
    ELSE [ok |-> FALSE, fs |-> f]

mkdir(f, p) ==
    IF p = <<>> THEN [err |-> "NotFound", fs |-> f]
    ELSE IF Last(p) = ROOT THEN [err |-> "Other", fs |-> f]
    ELSE LET pn == IF Front(p) = <<>> THEN Cwd ELSE Lookup(f, Front(p))
         IN  IF pn = ENOENT THEN [err |-> "NotFound", fs |-> f]
             ELSE IF pn = ENOTDIR THEN [err |-> "Other", fs |-> f]
             ELSE IF f[pn] # "dir" THEN [err |-> "Other", fs |-> f]
             ELSE IF Last(p) = PARENT THEN [err |-> "Other", fs |-> f]
             ELSE IF ~IsNode(Append(pn, Last(p))) THEN [err |-> "Other", fs |-> f]
             ELSE IF f[Append(pn, Last(p))] # "none" THEN [err |-> "Other", fs |-> f]
             ELSE [err |-> "ok", fs |-> [f EXCEPT ![Append(pn, Last(p))] = "dir"]]

\* variant: a failure undoes the directories created on the way
RECURSIVE create_dir_all_rollback(_, _)
create_dir_all_rollback(f, p) ==
    IF p = <<>> THEN [ok |-> TRUE, fs |-> f]
    ELSE LET m == mkdir(f, p)
         IN  IF m.err = "ok" THEN [ok |-> TRUE, fs |-> m.fs]
             ELSE IF m.err # "NotFound" THEN [ok |-> is_dir(f, p), fs |-> f]
             ELSE IF ~has_parent(p) THEN [ok |-> FALSE, fs |-> f]
             ELSE LET r == create_dir_all_rollback(f, parent(p))
                  IN  IF ~r.ok THEN [ok |-> FALSE, fs |-> f]
                      ELSE LET m2 == mkdir(r.fs, p)
                           IN  IF m2.err = "ok" THEN [ok |-> TRUE, fs |-> m2.fs]
                               ELSE IF is_dir(r.fs, p) THEN [ok |-> TRUE, fs |-> r.fs]
                               ELSE [ok |-> FALSE, fs |-> f]

RECURSIVE create_dir_all(_, _)
create_dir_all(f, p) ==
    IF p = <<>> THEN [ok |-> TRUE, fs |-> f]
    ELSE LET m == mkdir(f, p)
         IN  IF m.err = "ok" THEN [ok |-> TRUE, fs |-> m.fs]
             ELSE IF m.err # "NotFound" THEN [ok |-> is_dir(f, p), fs |-> f]
             ELSE IF ~has_parent(p) THEN [ok |-> FALSE, fs |-> f]
             ELSE LET r == create_dir_all(f, parent(p))
                  IN  IF ~r.ok THEN r
                      ELSE LET m2 == mkdir(r.fs, p)
                           IN  IF m2.err = "ok" THEN [ok |-> TRUE, fs |-> m2.fs]
                               ELSE [ok |-> is_dir(r.fs, p), fs |-> r.fs]

\* ------------------------------------------------------- closest_ancestor
NoError == [kind |-> "None", path |-> <<>>]
malformed_path(p) == [kind |-> "MalformedPath", path |-> p]

\* variant: the name is put in front of the segments found so far
RECURSIVE closest_ancestor_reversed(_, _)
closest_ancestor_reversed(f, p) ==
    IF exists(f, p) THEN [error |-> NoError, base |-> p, subdirs |-> <<>>]
    ELSE IF ~has_parent(p) THEN [error |-> NoError, base |-> <<>>, subdirs |-> <<>>]
    ELSE IF ~has_file_name(p)
         THEN [error |-> malformed_path(p), base |-> <<>>, subdirs |-> <<>>]
    ELSE LET r == closest_ancestor_reversed(f, parent(p))
         IN  IF r.error # NoError THEN r
             ELSE [r EXCEPT !.subdirs = <<file_name(p)>> \o @]

\* variant: a last component without file name is recorded like a name
RECURSIVE closest_ancestor_any_name(_, _)
closest_ancestor_any_name(f, p) ==
    IF exists(f, p) THEN [error |-> NoError, base |-> p, subdirs |-> <<>>]
    ELSE IF ~has_parent(p) THEN [error |-> NoError, base |-> <<>>, subdirs |-> <<>>]
    ELSE LET r == closest_ancestor_any_name(f, parent(p))
         IN  IF r.error # NoError THEN r
             ELSE [r EXCEPT !.subdirs = Append(@, Last(p))]

\* variant: the search starts at the parent, the path itself is not looked at
RECURSIVE closest_ancestor_parent_first(_, _)
closest_ancestor_parent_first(f, p) ==
    IF ~has_parent(p)
    THEN [error |-> NoError, base |-> IF exists(f, p) THEN p ELSE <<>>,
          subdirs |-> <<>>]
    ELSE IF ~has_file_name(p)
    THEN IF exists(f, p) THEN [error |-> NoError, base |-> p, subdirs |-> <<>>]
         ELSE [error |-> malformed_path(p), base |-> <<>>, subdirs |-> <<>>]
    ELSE IF exists(f, parent(p))
    THEN [error |-> NoError, base |-> parent(p), subdirs |-> <<file_name(p)>>]
    ELSE LET r == closest_ancestor_parent_first(f, parent(p))
         IN  IF r.error # NoError THEN r
             ELSE [r EXCEPT !.subdirs = Append(@, file_name(p))]

\* variant: a missing path without parent is an error
RECURSIVE closest_ancestor_strict(_, _)
closest_ancestor_strict(f, p) ==
    IF exists(f, p) THEN [error |-> NoError, base |-> p, subdirs |-> <<>>]
    ELSE IF ~has_parent(p)
         THEN [error |-> malformed_path(p), base |-> <<>>, subdirs |-> <<>>]
    ELSE IF ~has_file_name(p)
         THEN [error |-> malformed_path(p), base |-> <<>>, subdirs |-> <<>>]
    ELSE LET r == closest_ancestor_strict(f, parent(p))
         IN  IF r.error # NoError THEN r
             ELSE [r EXCEPT !.subdirs = Append(@, file_name(p))]

RECURSIVE closest_ancestor(_, _)
closest_ancestor(f, p) ==
    IF exists(f, p) THEN [error |-> NoError, base |-> p, subdirs |-> <<>>]
    ELSE IF ~has_parent(p) THEN [error |-> NoError, base |-> <<>>, subdirs |-> <<>>]
    ELSE IF ~has_file_name(p)
         THEN [error |-> malformed_path(p), base |-> <<>>, subdirs |-> <<>>]
    ELSE LET r == closest_ancestor(f, parent(p))
         IN  IF r.error # NoError THEN r
             ELSE [r EXCEPT !.subdirs = Append(@, file_name(p))]

\* variant: the ancestor and the segments are found by two walks
RECURSIVE closest_ancestor_calls_twice(_, _)
closest_ancestor_calls_twice(f, p) ==
    IF exists(f, p) THEN 1
    ELSE IF ~has_parent(p) THEN 1
    ELSE IF ~has_file_name(p) THEN 1
    ELSE 1 + closest_ancestor_calls_twice(f, parent(p))
           + closest_ancestor_calls_twice(f, parent(p))

\* the number of calls of closest_ancestor (the first one included) that
\* resolving p makes
RECURSIVE closest_ancestor_calls(_, _)
closest_ancestor_calls(f, p) ==
    IF exists(f, p) THEN 1
    ELSE IF ~has_parent(p) THEN 1
    ELSE IF ~has_file_name(p) THEN 1
    ELSE 1 + closest_ancestor_calls(f, parent(p))

\* ------------------------------------------------------------ the handle
Unused == [st |-> "unused", base_path |-> <<>>, subdirs |-> <<>>,
           error |-> NoError, target |-> <<>>,
           clean_on_init |-> CLEAN_ON_INIT_DEFAULT,
           gitignore_on_init |-> GITIGNORE_ON_INIT_DEFAULT]

to_path_buf(x) == x.base_path \o x.subdirs

Dropped == [Unused EXCEPT !.st = "dropped"]

\* the latest operation: its handle, its result, the path its error carries
\* (for a writer: the relative path it was given, if absolute or structured),
\* the directories a removal deleted (in order), the nodes an initialize()
\* created, the nodes a remove_contents() deleted, and which of the two
\* initialize() it was (of Path or of Directory)
NoOp == [op |-> "none", h |-> 0, res |-> "Ok", path |-> <<>>, del |-> <<>>,
         made |-> {}, gone |-> {}, impl |-> ""]

Did(op, h, res, del) ==
    [op |-> op, h |-> h, res |-> res, path |-> <<>>, del |-> del, made |-> {},
     gone |-> {}, impl |-> ""]

Created(f, g) == {n \in Nodes : f[n] = "none" /\ g[n] # "none"}
StillThere(g) == {n \in foreign : g[n] # "none"}

\* variant: the pending list is cleared without folding it into the base
make_persistent_clear_only(x) ==
    [x EXCEPT !.subdirs = <<>>]

\* variant: the pending list is folded into the base but not cleared
make_persistent_keep_list(x) ==
    [x EXCEPT !.base_path = to_path_buf(x)]

\* variant: folding the pending list also forgets the recorded error
make_persistent_forgets_error(x) ==
    [x EXCEPT !.base_path = to_path_buf(x), !.subdirs = <<>>, !.error = NoError]

make_persistent(x) ==
    [x EXCEPT !.base_path = to_path_buf(x), !.subdirs = <<>>]

\* variant: the segment is recorded without looking at the file system
add_subdir_unchecked(f, x, s) ==
    [x EXCEPT !.subdirs = Append(@, s), !.target = push(to_path_buf(x), s)]

\* variant: an existing target becomes the base, the pending list is kept
add_subdir_no_clear(f, x, s) ==
    IF exists(f, push(to_path_buf(x), s))
    THEN [x EXCEPT !.base_path = push(to_path_buf(x), s),
                   !.target = push(to_path_buf(x), s)]
    ELSE [x EXCEPT !.subdirs = Append(@, s), !.target = push(to_path_buf(x), s)]

\* variant: the new segment is always folded into the base
add_subdir_fold_all(f, x, s) ==
    [x EXCEPT !.base_path = push(to_path_buf(x), s), !.subdirs = <<>>,
              !.target = push(to_path_buf(x), s)]

\* (target is bookkeeping of the model: the path the caller has asked for)
add_subdir(f, x, s) ==
    IF exists(f, push(to_path_buf(x), s))
    THEN [x EXCEPT !.base_path = push(to_path_buf(x), s), !.subdirs = <<>>,
                   !.target = push(to_path_buf(x), s)]
    ELSE [x EXCEPT !.subdirs = Append(@, s), !.target = push(to_path_buf(x), s)]

\* what a removal call is about to delete, observed on the tree before the call
Deleted(f, p) ==
    IF exists(f, p)
    THEN [node |-> Lookup(f, p), kind |-> f[Lookup(f, p)],
          entries |-> Cardinality(Entries(f, Lookup(f, p)))]
    ELSE [node |-> Lookup(f, p), kind |-> "none", entries |-> 0]

\* variant: the loop does not stop when no pending segment is left
RECURSIVE remove_unguarded(_, _, _)
remove_unguarded(f, x, del) ==
    IF remove_dir(f, to_path_buf(x)).ok
    THEN remove_unguarded(remove_dir(f, to_path_buf(x)).fs,
                          [x EXCEPT !.subdirs = Front(@)],
                          Append(del, Deleted(f, to_path_buf(x))))
    ELSE [fs |-> f, x |-> x, del |-> del]

\* variant: only the deepest pending directory is removed
remove_leaf_only(f, x, del) ==
    IF x.subdirs # <<>> /\ remove_dir(f, to_path_buf(x)).ok
    THEN [fs |-> remove_dir(f, to_path_buf(x)).fs,
          x |-> [x EXCEPT !.subdirs = Front(@)],
          del |-> Append(del, Deleted(f, to_path_buf(x)))]
    ELSE [fs |-> f, x |-> x, del |-> del]

\* variant: a segment is popped whether or not its directory was deleted
RECURSIVE remove_pop_always(_, _, _)
remove_pop_always(f, x, del) ==
    IF x.subdirs = <<>> THEN [fs |-> f, x |-> x, del |-> del]
    ELSE IF remove_dir(f, to_path_buf(x)).ok
    THEN remove_pop_always(remove_dir(f, to_path_buf(x)).fs,
                           [x EXCEPT !.subdirs = Front(@)],
                           Append(del, Deleted(f, to_path_buf(x))))
    ELSE remove_pop_always(f, [x EXCEPT !.subdirs = Front(@)], del)

RECURSIVE remove(_, _, _)
remove(f, x, del) ==
    IF x.subdirs # <<>> /\ remove_dir(f, to_path_buf(x)).ok
    THEN remove(remove_dir(f, to_path_buf(x)).fs,
                [x EXCEPT !.subdirs = Front(@)],
                Append(del, Deleted(f, to_path_buf(x))))
    ELSE [fs |-> f, x |-> x, del |-> del]

\* the number of std::fs::remove_dir calls one remove() makes
RECURSIVE remove_attempts(_, _)
remove_attempts(f, x) ==
    IF x.subdirs = <<>> THEN 0
    ELSE IF remove_dir(f, to_path_buf(x)).ok
    THEN 1 + remove_attempts(remove_dir(f, to_path_buf(x)).fs,
                             [x EXCEPT !.subdirs = Front(@)])
    ELSE 1

\* variant: one removal attempt instead of a loop
drop_once(f, base, path, del) ==
    IF path # base /\ remove_dir(f, path).ok
    THEN [fs |-> remove_dir(f, path).fs, del |-> Append(del, Deleted(f, path))]
    ELSE [fs |-> f, del |-> del]

\* variant: the loop does not compare the path with the base
RECURSIVE drop_ignoring_base(_, _, _, _)
drop_ignoring_base(f, base, path, del) ==
    IF remove_dir(f, path).ok
    THEN drop_ignoring_base(remove_dir(f, path).fs, base, pop(path),
                            Append(del, Deleted(f, path)))
    ELSE [fs |-> f, del |-> del]

\* variant: a path that does not exist is skipped and the loop goes on
RECURSIVE drop_skipping_missing(_, _, _, _)
drop_skipping_missing(f, base, path, del) ==
    IF path = base THEN [fs |-> f, del |-> del]
    ELSE IF remove_dir(f, path).ok
    THEN drop_skipping_missing(remove_dir(f, path).fs, base, pop(path),
                               Append(del, Deleted(f, path)))
    ELSE IF ~exists(f, path) /\ has_parent(path)
    THEN drop_skipping_missing(f, base, pop(path), del)
    ELSE [fs |-> f, del |-> del]

RECURSIVE drop_loop(_, _, _, _)
drop_loop(f, base, path, del) ==
    IF path # base /\ remove_dir(f, path).ok
    THEN drop_loop(remove_dir(f, path).fs, base, pop(path),
                   Append(del, Deleted(f, path)))
    ELSE [fs |-> f, del |-> del]

\* (res is the kind of the error returned, path the path it carries)
ensure_exists(f, x) ==
    IF ~exists(f, to_path_buf(x))
    THEN LET r == create_dir_all(f, to_path_buf(x))
         IN  IF r.ok THEN [res |-> "Ok", path |-> <<>>, fs |-> r.fs]
             ELSE [res |-> "DirectoryCreationError", path |-> to_path_buf(x),
                   fs |-> r.fs]
    ELSE [res |-> "Ok", path |-> <<>>, fs |-> f]

verify_is_directory(f, x) ==
    IF ~is_dir(f, to_path_buf(x)) THEN "PathIsNotADirectory" ELSE "Ok"

\* variant: the created path is not verified to be a directory
initialize_unverified(f, x) == ensure_exists(f, x)

initialize(f, x) ==
    LET e == ensure_exists(f, x)
    IN  IF e.res # "Ok" THEN e
        ELSE IF verify_is_directory(e.fs, x) # "Ok"
        THEN [res |-> verify_is_directory(e.fs, x), path |-> to_path_buf(x),
              fs |-> e.fs]
        ELSE [res |-> "Ok", path |-> <<>>, fs |-> e.fs]

write(f, p, content) ==
    IF p # <<>> /\ Last(p) \in Names \cup LeafNames
       /\ (IF Front(p) = <<>> THEN TRUE ELSE is_dir(f, Front(p)))
       /\ ~is_dir(f, p)
       /\ IsNode(Append(IF Front(p) = <<>> THEN Cwd ELSE Lookup(f, Front(p)), Last(p)))
    THEN [ok |-> TRUE,
          fs |-> [f EXCEPT ![Append(IF Front(p) = <<>> THEN Cwd
                                    ELSE Lookup(f, Front(p)), Last(p))] = content]]
    ELSE [ok |-> FALSE, fs |-> f]

\* ------------------------------------------- Directory: constructors, flags
path_is_not_a_directory(p) == [kind |-> "PathIsNotADirectory", path |-> p]
path_does_not_exist(p) == [kind |-> "PathDoesNotExist", path |-> p]
directory_creation_error(p) == [kind |-> "DirectoryCreationError", path |-> p]

\* the tree after a Directory value has gone out of scope
dropped(f, x) == drop_loop(f, x.base_path, to_path_buf(x), <<>>).fs

is_absolute(p) == p # <<>> /\ Head(p) = ROOT

\* variant: an absolute path is refused with an error value, nothing unwinds
write_bytes_checked(f, x, rel) ==
    IF is_absolute(rel) THEN [res |-> "PathIsAbsolute", fs |-> f]
    ELSE IF write(f, to_path_buf(x) \o rel, "file").ok
    THEN [res |-> "Ok", fs |-> write(f, to_path_buf(x) \o rel, "file").fs]
    ELSE [res |-> "panic", fs |-> dropped(f, x)]

\* assert!(!is_absolute) and the unwrap of the write both panic; the
\* unwinding drops the Directory
write_bytes(f, x, rel) ==
    IF is_absolute(rel) THEN [res |-> "panic", fs |-> dropped(f, x)]
    ELSE IF write(f, to_path_buf(x) \o rel, "file").ok
    THEN [res |-> "Ok", fs |-> write(f, to_path_buf(x) \o rel, "file").fs]
    ELSE [res |-> "panic", fs |-> dropped(f, x)]

\* a file name as the pieces between its dots (".gitignore" begins with one)
Pieces(name) ==
    CASE name = "data" -> <<"data">>
      [] name = "data.json" -> <<"data", "json">>
      [] name = "data.txt" -> <<"data", "txt">>
      [] name = GITIGNORE -> <<"", "gitignore">>
      [] OTHER -> <<name>>

\* the file name with the given pieces
Unsplit(ps) == CHOOSE name \in Names \cup LeafNames : Pieces(name) = ps

\* Path::file_stem: the name up to its last dot; a name without a dot, or
\* whose only dot is the first character, is its own stem
file_stem(name) ==
    IF Len(Pieces(name)) < 2 THEN Pieces(name)
    ELSE IF Front(Pieces(name)) = <<"">> THEN Pieces(name)
    ELSE Front(Pieces(name))

\* variant: the path is used under the name it was given
with_extension_ignored(p, e) == p

\* Path::with_extension: unchanged without a file name, else stem + "." + e
with_extension(p, e) ==
    IF p = <<>> THEN p
    ELSE IF Last(p) \in {ROOT, PARENT} THEN p
    ELSE Append(Front(p), Unsplit(Append(file_stem(Last(p)), e)))

\* the extension is forced first, then the object is serialized (a failure
\* panics), then write_string / write_bytes write the text
write_json(f, x, rel, serializable) ==
    IF ~serializable THEN [res |-> "panic", fs |-> dropped(f, x)]
    ELSE write_bytes(f, x, with_extension(rel, JSON))

directory_ensure_exists(f, x) ==
    IF ~exists(f, to_path_buf(x))
    THEN LET r == create_dir_all(f, to_path_buf(x))
         IN  [err |-> IF r.ok THEN NoError
                      ELSE directory_creation_error(to_path_buf(x)),
              fs |-> r.fs]
    ELSE [err |-> NoError, fs |-> f]

new_persistent(f, p) ==
    LET dir == [Unused EXCEPT !.st = "live", !.base_path = p]
        e == directory_ensure_exists(f, dir)
    IN  [err |-> e.err, fs |-> e.fs, x |-> dir]

\* self is consumed: on every path that does not return it, it is dropped
new_subdir(f, x, s) ==
    LET target_path == push(x.base_path, s)
    IN  IF exists(f, target_path)
        THEN IF ~is_dir(f, target_path)
             THEN [err |-> path_is_not_a_directory(target_path),
                   fs |-> dropped(f, x), x |-> x]
             ELSE LET r == new_persistent(f, target_path)
                  IN  [r EXCEPT !.fs = dropped(r.fs, x)]
        ELSE LET y == [x EXCEPT !.subdirs = Append(@, s)]
                 e == directory_ensure_exists(f, y)
             IN  IF e.err # NoError
                 THEN [err |-> e.err, fs |-> dropped(e.fs, y), x |-> y]
                 ELSE [err |-> NoError, fs |-> e.fs, x |-> y]

\* variant: an existing path is taken as it is, directory or not
RECURSIVE directory_new_unchecked(_, _)
directory_new_unchecked(f, p) ==
    IF exists(f, p)
    THEN new_persistent(f, p)
    ELSE IF ~has_file_name(p)
         THEN [err |-> malformed_path(p), fs |-> f, x |-> Unused]
    ELSE IF ~has_parent(p)
         THEN [err |-> malformed_path(p), fs |-> f, x |-> Unused]
    ELSE LET r == directory_new_unchecked(f, parent(p))
         IN  IF r.err # NoError THEN r
             ELSE new_subdir(r.fs, r.x, file_name(p))

RECURSIVE directory_new(_, _)
directory_new(f, p) ==
    IF exists(f, p)
    THEN IF ~is_dir(f, p)
         THEN [err |-> path_is_not_a_directory(p), fs |-> f, x |-> Unused]
         ELSE new_persistent(f, p)
    ELSE IF ~has_file_name(p)
         THEN [err |-> malformed_path(p), fs |-> f, x |-> Unused]
    ELSE IF ~has_parent(p)
         THEN [err |-> malformed_path(p), fs |-> f, x |-> Unused]
    ELSE LET r == directory_new(f, parent(p))
         IN  IF r.err # NoError THEN r
             ELSE new_subdir(r.fs, r.x, file_name(p))

directory_keep(x) ==
    [x EXCEPT !.base_path = x.base_path \o x.subdirs, !.subdirs = <<>>]

\* every entry below directory node d is removed (remove_dir_all / remove_file)
remove_entries(f, d) ==
    [n \in Nodes |-> IF IsPrefix(d, n) /\ n # d THEN "none" ELSE f[n]]

\* read_dir(..).unwrap() panics when the path is no directory; the unwinding
\* drops self
directory_clean(f, x) ==
    IF ~is_dir(f, to_path_buf(x))
    THEN [res |-> "panic", fs |-> dropped(f, x)]
    ELSE [res |-> directory_ensure_exists(
                      remove_entries(f, Lookup(f, to_path_buf(x))), x).err.kind,
          fs |-> remove_entries(f, Lookup(f, to_path_buf(x)))]

write_gitignore(f, x) == write(f, push(to_path_buf(x), GITIGNORE), IGNORE_ALL)

with_gitignore(f, x) ==
    IF write_gitignore(f, x).ok
    THEN [res |-> "Ok", fs |-> write_gitignore(f, x).fs]
    ELSE [res |-> "panic", fs |-> dropped(f, x)]

\* variant: the directory is deleted together with its contents
remove_contents_and_self(f, x) ==
    IF ~exists(f, to_path_buf(x))
    THEN [err |-> path_does_not_exist(to_path_buf(x)), fs |-> f]
    ELSE IF ~is_dir(f, to_path_buf(x))
    THEN [err |-> path_is_not_a_directory(to_path_buf(x)), fs |-> f]
    ELSE [err |-> NoError,
          fs |-> [n \in Nodes |-> IF IsPrefix(Lookup(f, to_path_buf(x)), n)
                                     /\ Lookup(f, to_path_buf(x)) # <<>>
                                  THEN "none" ELSE f[n]]]

remove_contents(f, x) ==
    IF ~exists(f, to_path_buf(x))
    THEN [err |-> path_does_not_exist(to_path_buf(x)), fs |-> f]
    ELSE IF ~is_dir(f, to_path_buf(x))
    THEN [err |-> path_is_not_a_directory(to_path_buf(x)), fs |-> f]
    ELSE [err |-> NoError, fs |-> remove_entries(f, Lookup(f, to_path_buf(x)))]

\* variant: .gitignore is written before the directory is cleaned
directory_initialize_gitignore_first(f, x) ==
    LET e == directory_ensure_exists(f, x)
    IN  IF e.err # NoError THEN [err |-> e.err, fs |-> e.fs]
        ELSE IF ~is_dir(e.fs, to_path_buf(x))
        THEN [err |-> path_is_not_a_directory(to_path_buf(x)), fs |-> e.fs]
        ELSE IF x.gitignore_on_init /\ ~write_gitignore(e.fs, x).ok
        THEN [err |-> [kind |-> "panic", path |-> <<>>], fs |-> dropped(e.fs, x)]
        ELSE LET g == IF x.gitignore_on_init THEN write_gitignore(e.fs, x).fs
                      ELSE e.fs
             IN  IF x.clean_on_init THEN remove_contents(g, x)
                 ELSE [err |-> NoError, fs |-> g]

\* variant: the directory is cleaned whether or not clean_on_init is set
directory_initialize_always_clean(f, x) ==
    LET e == directory_ensure_exists(f, x)
    IN  IF e.err # NoError THEN [err |-> e.err, fs |-> e.fs]
        ELSE IF ~is_dir(e.fs, to_path_buf(x))
        THEN [err |-> path_is_not_a_directory(to_path_buf(x)), fs |-> e.fs]
        ELSE LET c == remove_contents(e.fs, x)
             IN  IF c.err # NoError THEN c
                 ELSE IF ~x.gitignore_on_init THEN c
                 ELSE IF write_gitignore(c.fs, x).ok
                 THEN [err |-> NoError, fs |-> write_gitignore(c.fs, x).fs]
                 ELSE [err |-> [kind |-> "panic", path |-> <<>>],
                       fs |-> dropped(c.fs, x)]

\* Directory::initialize: create, verify, clean if asked, .gitignore if asked
directory_initialize(f, x) ==
    LET e == directory_ensure_exists(f, x)
    IN  IF e.err # NoError THEN [err |-> e.err, fs |-> e.fs]
        ELSE IF ~is_dir(e.fs, to_path_buf(x))
        THEN [err |-> path_is_not_a_directory(to_path_buf(x)), fs |-> e.fs]
        ELSE LET c == IF x.clean_on_init THEN remove_contents(e.fs, x)
                      ELSE [err |-> NoError, fs |-> e.fs]
             IN  IF c.err # NoError THEN c
                 ELSE IF ~x.gitignore_on_init THEN c
                 ELSE IF write_gitignore(c.fs, x).ok
                 THEN [err |-> NoError, fs |-> write_gitignore(c.fs, x).fs]
                 ELSE [err |-> [kind |-> "panic", path |-> <<>>],
                       fs |-> dropped(c.fs, x)]


\* ---------------------------------------------------------------- actions
RelPaths == {<<"a">>, <<"b">>, <<"b", "a">>, <<ROOT, "b">>}

Tick == steps < MaxSteps /\ steps' = steps + 1

\* a path one name deeper than the file system holds: the mkdir of its last
\* name fails (as with ENAMETOOLONG)
TooDeep == <<ROOT>> \o [i \in 1..(MaxDepth + 1) |-> "a"]

Targets ==
    { <<ROOT, "a", "b">>, <<ROOT, "a", "b", "a">>,
      <<ROOT, "a", "b", "b">>, <<"b">>, <<ROOT, "a", "b", PARENT>>, TooDeep }

Fs0 == [n \in Nodes |-> IF n \in {<<>>, <<"a">>} THEN "dir" ELSE "none"]

Init ==
    /\ fs = Fs0
    /\ hd = [h \in Handles |-> Unused]
    /\ last = NoOp
    /\ ext = 0
    /\ foreign = {}
    /\ steps = 0

New(h, p) ==
    /\ Tick
    /\ hd[h].st = "unused"
    /\ \A g \in Handles : g < h => hd[g].st # "unused"
    /\ NameCount(p) <= MaxDepth + 1
    /\ LET r == closest_ancestor(fs, p)
       IN  /\ hd' = [hd EXCEPT ![h] = [Unused EXCEPT !.st = "live",
                                                    !.base_path = r.base,
                                                    !.subdirs = r.subdirs,
                                                    !.error = r.error,
                                                    !.target = p]]
           /\ last' = [Did("new", h, r.error.kind, <<>>) EXCEPT
                           !.path = r.error.path]
    /\ UNCHANGED <<fs, ext, foreign>>

Clone(h, g) ==
    /\ Tick
    /\ hd[h].st = "live"
    /\ hd[g].st = "unused"
    /\ hd' = [hd EXCEPT ![g] = hd[h]]
    /\ last' = Did("clone", h, "Ok", <<>>)
    /\ UNCHANGED <<fs, ext, foreign>>

Keep(h) ==
    /\ Tick
    /\ hd[h].st = "live"
    /\ hd' = [hd EXCEPT ![h] = make_persistent(hd[h])]
    /\ last' = Did("keep", h, "Ok", <<>>)
    /\ UNCHANGED <<fs, ext, foreign>>

WithSubdir(h, s) ==
    /\ Tick
    /\ hd[h].st = "live"
    /\ NameCount(to_path_buf(hd[h])) < MaxDepth
    /\ hd' = [hd EXCEPT ![h] = add_subdir(fs, hd[h], s)]
    /\ last' = Did("with_subdir", h, "Ok", <<>>)
    /\ UNCHANGED <<fs, ext, foreign>>

Initialize(h) ==
    /\ Tick
    /\ hd[h].st = "live"
    /\ LET r == initialize(fs, hd[h])
       IN  /\ fs' = r.fs
           /\ last' = [Did("initialize", h, r.res, <<>>) EXCEPT
                           !.path = r.path, !.made = Created(fs, r.fs),
                           !.impl = "Path"]
    /\ UNCHANGED <<hd, ext, foreign>>

Remove(h) ==
    /\ Tick
    /\ hd[h].st = "live"
    /\ LET r == remove(fs, hd[h], <<>>)
       IN  /\ fs' = r.fs
           /\ hd' = [hd EXCEPT ![h] = r.x]
           /\ last' = Did("remove", h, "Ok", r.del)
           /\ foreign' = StillThere(r.fs)
    /\ UNCHANGED ext

Drop(h) ==
    /\ Tick
    /\ hd[h].st = "live"
    /\ LET r == drop_loop(fs, hd[h].base_path, to_path_buf(hd[h]), <<>>)
       IN  /\ fs' = r.fs
           /\ hd' = [hd EXCEPT ![h] = Dropped]
           /\ last' = Did("drop", h, "Ok", r.del)
           /\ foreign' = StillThere(r.fs)
    /\ UNCHANGED ext

WriteBytes(h, rel) ==
    /\ Tick
    /\ hd[h].st = "live"
    /\ is_absolute(rel) \/ NameCount(to_path_buf(hd[h])) + Len(rel) <= MaxDepth
    /\ \E r \in {write_bytes(fs, hd[h], rel)} :
           /\ fs' = r.fs
           /\ hd' = [hd EXCEPT ![h] = IF r.res = "panic" THEN Dropped ELSE @]
           /\ last' = [Did("write_bytes", h, r.res, <<>>) EXCEPT
                           !.path = IF is_absolute(rel) THEN rel ELSE <<>>]
           /\ foreign' = StillThere(r.fs)
    /\ UNCHANGED ext

WriteJson(h, rel, serializable) ==
    /\ Tick
    /\ hd[h].st = "live"
    /\ NameCount(to_path_buf(hd[h])) < MaxDepth
    /\ \E r \in {write_json(fs, hd[h], rel, serializable)} :
           /\ fs' = r.fs
           /\ hd' = [hd EXCEPT ![h] = IF r.res = "panic" THEN Dropped ELSE @]
           /\ last' = [Did("write_json", h, r.res, <<>>) EXCEPT !.path = rel]
           /\ foreign' = StillThere(r.fs)
    /\ UNCHANGED ext

\* another actor (or the caller through std::fs) creates a file or directory
ExtCreate(n, k) ==
    /\ Tick
    /\ ext < MaxExt
    /\ n # <<>>
    /\ Last(n) \notin DataNames
    /\ fs[NodeParent(n)] = "dir"
    /\ fs[n] = "none"
    /\ fs' = [fs EXCEPT ![n] = k]
    /\ ext' = ext + 1
    /\ foreign' = foreign \cup {n}
    /\ last' = [NoOp EXCEPT !.op = "ext"]
    /\ UNCHANGED hd

\* ------------------------------------------------------ Directory actions
DirectoryNew(h, p) ==
    /\ Tick
    /\ hd[h].st = "unused"
    /\ NameCount(p) <= MaxDepth + 1
    /\ \E r \in {directory_new(fs, p)} :
           /\ fs' = r.fs
           /\ hd' = [hd EXCEPT ![h] = IF r.err = NoError
                                      THEN [r.x EXCEPT !.target = p]
                                      ELSE Unused]
           /\ last' = [Did("directory_new", h, r.err.kind, <<>>) EXCEPT
                           !.path = r.err.path, !.made = Created(fs, r.fs)]
    /\ UNCHANGED <<ext, foreign>>

NewSubdir(h, s) ==
    /\ Tick
    /\ hd[h].st = "live"
    /\ NameCount(to_path_buf(hd[h])) < MaxDepth
    /\ \E r \in {new_subdir(fs, hd[h], s)} :
           /\ fs' = r.fs
           /\ hd' = [hd EXCEPT ![h] = IF r.err = NoError
                                      THEN [r.x EXCEPT !.st = "live",
                                                       !.target = to_path_buf(r.x)]
                                      ELSE Dropped]
           /\ last' = [Did("new_subdir", h, r.err.kind, <<>>) EXCEPT
                           !.path = r.err.path, !.made = Created(fs, r.fs)]
           /\ foreign' = StillThere(r.fs)
    /\ UNCHANGED ext

DirectoryKeep(h) ==
    /\ Tick
    /\ hd[h].st = "live"
    /\ hd' = [hd EXCEPT ![h] = directory_keep(hd[h])]
    /\ last' = Did("keep", h, "Ok", <<>>)
    /\ UNCHANGED <<fs, ext, foreign>>

Clean(h) ==
    /\ Tick
    /\ hd[h].st = "live"
    /\ \E r \in {directory_clean(fs, hd[h])} :
           /\ fs' = r.fs
           /\ hd' = [hd EXCEPT ![h] = IF r.res = "Ok" THEN @ ELSE Dropped]
           /\ last' = Did("clean", h, r.res, <<>>)
           /\ foreign' = StillThere(r.fs)
    /\ UNCHANGED ext

WithGitignore(h) ==
    /\ Tick
    /\ hd[h].st = "live"
    /\ \E r \in {with_gitignore(fs, hd[h])} :
           /\ fs' = r.fs
           /\ hd' = [hd EXCEPT ![h] = IF r.res = "Ok" THEN @ ELSE Dropped]
           /\ last' = Did("with_gitignore", h, r.res, <<>>)
           /\ foreign' = StillThere(r.fs)
    /\ UNCHANGED ext

\* the flags are public fields of Directory; they are set once, while they
\* still have their defaults
SetFlags(h, c, g) ==
    /\ Tick
    /\ hd[h].st = "live"
    /\ hd[h].clean_on_init = CLEAN_ON_INIT_DEFAULT
    /\ hd[h].gitignore_on_init = GITIGNORE_ON_INIT_DEFAULT
    /\ <<c, g>> # <<hd[h].clean_on_init, hd[h].gitignore_on_init>>
    /\ hd' = [hd EXCEPT ![h].clean_on_init = c, ![h].gitignore_on_init = g]
    /\ last' = Did("set_flags", h, "Ok", <<>>)
    /\ UNCHANGED <<fs, ext, foreign>>

DirectoryInitialize(h) ==
    /\ Tick
    /\ hd[h].st = "live"
    /\ \E r \in {directory_initialize(fs, hd[h])} :
           /\ fs' = r.fs
           /\ hd' = [hd EXCEPT ![h] = IF r.err.kind = "panic" THEN Dropped ELSE @]
           /\ last' = [Did("initialize", h,
                           IF r.err = NoError THEN "Ok" ELSE r.err.kind, <<>>) EXCEPT
                           !.path = r.err.path, !.made = Created(fs, r.fs),
                           !.impl = "Directory"]
    /\ UNCHANGED <<ext, foreign>>

RemoveContents(h) ==
    /\ Tick
    /\ hd[h].st = "live"
    /\ \E r \in {remove_contents(fs, hd[h])} :
           /\ fs' = r.fs
           /\ last' = [Did("remove_contents", h,
                           IF r.err = NoError THEN "Ok" ELSE r.err.kind, <<>>) EXCEPT
                           !.path = r.err.path, !.gone = Created(r.fs, fs)]
           /\ foreign' = StillThere(r.fs)
    /\ UNCHANGED <<hd, ext>>

\* ------------------------------------------------------- specifications
\* two handles of one process, no other actor
Next ==
    \/ \E h \in Handles, p \in Targets : New(h, p)
    \/ \E h \in Handles, g \in Handles : Clone(h, g)
    \/ \E h \in Handles : Keep(h)
    \/ \E h \in Handles, s \in Names : WithSubdir(h, s)
    \/ \E h \in Handles : Initialize(h)
    \/ \E h \in Handles : Remove(h)
    \/ \E h \in Handles : Drop(h)

Spec == Init /\ [][Next]_vars

\* one handle, files written through it, and another actor on the same tree
NextContent ==
    \/ \E p \in Targets : New(1, p)
    \/ Keep(1)
    \/ \E s \in Names : WithSubdir(1, s)
    \/ Initialize(1)
    \/ Remove(1)
    \/ Drop(1)
    \/ \E rel \in RelPaths : WriteBytes(1, rel)
    \/ \E n \in Nodes, k \in {"dir", "file"} : ExtCreate(n, k)

SpecContent == Init /\ [][NextContent]_vars

\* one handle and the structured writer
NextWriters ==
    \/ \E p \in Targets : New(1, p)
    \/ Keep(1)
    \/ Initialize(1)
    \/ \E name \in DataNames, ser \in BOOLEAN : WriteJson(1, <<name>>, ser)
    \/ Remove(1)
    \/ Drop(1)

SpecWriters == Init /\ [][NextWriters]_vars

\* one handle resolved by Path::new, with the flags of Directory, initialized
\* by Path::initialize or Directory::initialize, and another actor
NextInitialize ==
    \/ \E p \in Targets : New(1, p)
    \/ \E c \in BOOLEAN, g \in BOOLEAN : SetFlags(1, c, g)
    \/ Initialize(1)
    \/ DirectoryInitialize(1)
    \/ Drop(1)
    \/ \E rel \in RelPaths : WriteBytes(1, rel)
    \/ \E n \in Nodes, k \in {"dir", "file"} : ExtCreate(n, k)

SpecInitialize == Init /\ [][NextInitialize]_vars

\* one Directory built by the constructors of directory/constructors.rs
NextDirectory ==
    \/ \E p \in Targets : DirectoryNew(1, p)
    \/ \E s \in Names : NewSubdir(1, s)
    \/ DirectoryKeep(1)
    \/ Clean(1)
    \/ WithGitignore(1)
    \/ \E c \in BOOLEAN, g \in BOOLEAN : SetFlags(1, c, g)
    \/ DirectoryInitialize(1)
    \/ Drop(1)
    \/ \E rel \in RelPaths : WriteBytes(1, rel)
    \/ \E n \in Nodes, k \in {"dir", "file"} : ExtCreate(n, k)

SpecDirectory == Init /\ [][NextDirectory]_vars

\* one handle whose directory is filled, by itself and by another actor, and
\* emptied
NextRemoveContents ==
    \/ \E p \in Targets : New(1, p)
    \/ Initialize(1)
    \/ \E rel \in RelPaths : WriteBytes(1, rel)
    \/ \E n \in Nodes, k \in {"dir", "file"} : ExtCreate(n, k)
    \/ RemoveContents(1)
    \/ Drop(1)

SpecRemoveContents == Init /\ [][NextRemoveContents]_vars


\* resolution of every short path on every small tree
Paths ==
    UNION {[1..n -> Components] : n \in 0..MaxLen}
    \cup {<<ROOT>> \o q : q \in UNION {[1..n -> Components] : n \in 0..MaxLen}}

InitResolve ==
    /\ fs = [n \in Nodes |-> IF n = <<>> THEN "dir" ELSE "none"]
    /\ hd = [h \in Handles |-> Unused]
    /\ last = NoOp
    /\ ext = 0
    /\ foreign = {}
    /\ steps = 0

Populate(n, k) ==
    /\ hd[1].st = "unused"
    /\ n \in PlainNodes \ {<<>>}
    /\ Len(n) <= ExtDepth
    /\ fs[NodeParent(n)] = "dir"
    /\ fs[n] = "none"
    /\ fs' = [fs EXCEPT ![n] = k]
    /\ UNCHANGED <<hd, last, ext, foreign, steps>>

NextResolve ==
    \/ \E n \in Nodes, k \in {"dir", "file"} : Populate(n, k)
    \/ \E p \in Paths : New(1, p)

SpecResolve == InitResolve /\ [][NextResolve]_vars

TypeOK ==
    /\ \A n \in Nodes : fs[n] \in {"none", "dir"} \cup FileKinds
    /\ \A n \in Nodes \ {<<>>} : fs[n] # "none" => fs[NodeParent(n)] = "dir"
    /\ fs[<<>>] = "dir"
    /\ ext \in 0..MaxExt
    /\ foreign \subseteq Nodes
    /\ steps \in 0..MaxSteps

\* ------------------------------------------------------------------ claims
Prefixes(p) == {SubSeq(p, 1, k) : k \in 0..Len(p)}
ExistingAncestors(f, p) == {q \in Prefixes(p) : exists(f, q)}
Deepest(f, p) ==
    CHOOSE q \in ExistingAncestors(f, p) :
        \A r \in ExistingAncestors(f, p) : Len(r) <= Len(q)
JustResolved == last.op = "new" /\ hd[last.h].st = "live"
Resolved == hd[last.h]

\* C8 as stated: whenever some ancestor of the path exists, resolution
\* returns the deepest existing ancestor as base and the missing trailing
\* components, shallowest first, and base joined with them is the path.
C8_AsStated ==
    (JustResolved /\ ExistingAncestors(fs, Resolved.target) # {}) =>
        /\ Resolved.error = NoError
        /\ Resolved.base_path = Deepest(fs, Resolved.target)
        /\ Resolved.subdirs =
               SubSeq(Resolved.target, Len(Resolved.base_path) + 1,
                      Len(Resolved.target))
        /\ Resolved.base_path \o Resolved.subdirs = Resolved.target

\* C8 amended: the same, for paths whose components below the deepest
\* existing ancestor are all normal names (no `..` among the missing ones).
MissingAreNames(f, p) ==
    \A i \in (Len(Deepest(f, p)) + 1)..Len(p) : p[i] \in Names

C8_ResolutionCorrect ==
    (/\ JustResolved
     /\ ExistingAncestors(fs, Resolved.target) # {}
     /\ MissingAreNames(fs, Resolved.target)) =>
        /\ Resolved.error = NoError
        /\ Resolved.base_path = Deepest(fs, Resolved.target)
        /\ Resolved.subdirs =
               SubSeq(Resolved.target, Len(Resolved.base_path) + 1,
                      Len(Resolved.target))
        /\ Resolved.base_path \o Resolved.subdirs = Resolved.target

C8_Witness ==
    /\ JustResolved
    /\ ExistingAncestors(fs, Resolved.target) # {}
    /\ MissingAreNames(fs, Resolved.target)
    /\ Len(Resolved.subdirs) = 2
    /\ Resolved.subdirs[1] # Resolved.subdirs[2]
    /\ Len(Resolved.base_path) = 2

IsRemoval(l) == l.op \in {"remove", "drop"}
PendingPaths(x) ==
    {x.base_path \o SubSeq(x.subdirs, 1, k) : k \in 1..Len(x.subdirs)}
ChainNodes(f, x) == {Lookup(f, q) : q \in PendingPaths(x)} \cap Nodes
BaseLine(f, x) ==
    IF exists(f, x.base_path) THEN Prefixes(Lookup(f, x.base_path))
    ELSE IF x.base_path = <<>> THEN Prefixes(Cwd)
    ELSE {}

\* C1: whatever a remove() or drop of a handle changes on the tree is the
\* deletion of base joined with a non-empty prefix of that handle's pending
\* segments; base, the ancestors of base and every other path stay as they are.
C1_OnlyPendingRemoved ==
    [][\A h \in Handles :
          (IsRemoval(last') /\ last'.h = h) =>
              \A n \in Nodes :
                  fs'[n] # fs[n] =>
                      /\ fs'[n] = "none"
                      /\ n \in ChainNodes(fs, hd[h])
                      /\ n \notin BaseLine(fs, hd[h])]_vars

C1_Witness ==
    /\ last.op = "remove"
    /\ Len(last.del) = 2
    /\ hd[last.h].subdirs = <<>>
    /\ Len(hd[last.h].base_path) = 2
    /\ is_dir(fs, hd[last.h].base_path)

PathNodes(f, x) ==
    {Lookup(f, q) : q \in {r \in Prefixes(to_path_buf(x)) : exists(f, r)}}
Live(h) == hd[h].st = "live"

\* C3 as stated: while another handle is live, a remove() or drop of one
\* handle deletes no directory that is part of the other handle's resolved
\* path.
C3_AsStated ==
    [][\A h \in Handles, g \in Handles :
          (IsRemoval(last') /\ last'.h = h /\ g # h /\ Live(g)) =>
              \A n \in PathNodes(fs, hd[g]) : fs'[n] = fs[n]]_vars

Siblings(h, g) ==
    /\ h # g
    /\ Live(h)
    /\ Live(g)
    /\ hd[h].base_path = hd[g].base_path
    /\ Len(hd[h].subdirs) = 2
    /\ Len(hd[g].subdirs) = 2
    /\ hd[h].subdirs[1] = hd[g].subdirs[1]
    /\ hd[h].subdirs[2] # hd[g].subdirs[2]
Shared(x) == x.base_path \o SubSeq(x.subdirs, 1, 1)
Without(f, S) == [n \in Nodes |-> IF n \in S THEN "none" ELSE f[n]]

\* C4: of two initialized handles with pending lists [shared, p1] and
\* [shared, p2] over one existing base, removing one deletes exactly its own
\* leaf (shared and the other leaf stay); removing a handle whose leaf is the
\* only entry left in shared deletes the leaf and shared and keeps base.
C4_SharedRemoval ==
    [][\A h \in Handles :
          (IsRemoval(last') /\ last'.h = h) =>
              /\ \A g \in Handles :
                     (/\ Siblings(h, g)
                      /\ is_dir(fs, hd[h].base_path)
                      /\ is_dir(fs, to_path_buf(hd[h]))
                      /\ is_dir(fs, to_path_buf(hd[g]))) =>
                         fs' = Without(fs, {Lookup(fs, to_path_buf(hd[h]))})
              /\ (/\ Live(h)
                  /\ Len(hd[h].subdirs) = 2
                  /\ is_dir(fs, hd[h].base_path)
                  /\ is_dir(fs, to_path_buf(hd[h]))
                  /\ Entries(fs, Lookup(fs, to_path_buf(hd[h]))) = {}
                  /\ Entries(fs, Lookup(fs, Shared(hd[h])))
                         = {Lookup(fs, to_path_buf(hd[h]))}) =>
                     /\ fs' = Without(fs, {Lookup(fs, to_path_buf(hd[h])),
                                           Lookup(fs, Shared(hd[h]))})
                     /\ is_dir(fs', hd[h].base_path)]_vars

\* the second of the two removals has just happened: the other handle has
\* already given up its leaf, this one deleted its leaf and then shared
C4_Witness ==
    /\ last.op = "remove"
    /\ Len(last.del) = 2
    /\ hd[last.h].subdirs = <<>>
    /\ is_dir(fs, hd[last.h].base_path)
    /\ \E g \in Handles :
           /\ g # last.h
           /\ Live(g)
           /\ hd[g].base_path = hd[last.h].base_path
           /\ Len(hd[g].subdirs) = 1
           /\ Len(hd[g].target) = Len(hd[g].base_path) + 2
           /\ Len(hd[last.h].target) = Len(hd[g].target)
           /\ hd[g].target # hd[last.h].target
           /\ ~exists(fs, Shared(hd[g]))

StopsAt(h, C) ==
    \A k \in 1..Len(hd[h].subdirs) :
        LET q == hd[h].base_path \o SubSeq(hd[h].subdirs, 1, k)
        IN  is_dir(fs, q) =>
                \A c \in Entries(fs, Lookup(fs, q)) \cap C :
                    /\ fs'[c] = fs[c]
                    /\ \A j \in 1..k :
                           is_dir(fs', hd[h].base_path \o SubSeq(hd[h].subdirs, 1, j))

FreshOn(f, x) ==
    /\ ~exists(f, x.target)
    /\ closest_ancestor(f, x.target) =
           [error |-> NoError, base |-> x.base_path, subdirs |-> x.subdirs]

HasWrittenContent(f, d) ==
    /\ \E c \in Entries(f, d) : f[c] = "file"
    /\ \E c \in Entries(f, d) : f[c] = "dir" /\ \E e \in Entries(f, c) : f[e] = "file"

\* C7 as stated: dropping a volatile handle whose directory was created by
\* initialize() and then filled with files and a subdirectory holding a file
\* removes the directory with its contents: the target no longer exists.
C7_AsStated ==
    [][\A h \in Handles :
          (/\ last'.op = "drop"
           /\ last'.h = h
           /\ Live(h)
           /\ hd[h].error = NoError
           /\ hd[h].subdirs # <<>>
           /\ to_path_buf(hd[h]) = hd[h].target
           /\ is_dir(fs, hd[h].target)
           /\ HasWrittenContent(fs, Lookup(fs, hd[h].target))) =>
              ~exists(fs', hd[h].target)]_vars

\* C9 as stated: base joined with the pending segments is the requested
\* target in every state of a handle whose resolution succeeded.
C9_AsStated ==
    \A h \in Handles :
        (Live(h) /\ hd[h].error = NoError) => to_path_buf(hd[h]) = hd[h].target

\* C9 amended: base joined with the pending segments is always a prefix of
\* the target; it is the target after resolution, and every operation except
\* a remove() of that handle keeps it the target.
C9_TargetKept ==
    [][\A h \in Handles :
          (hd'[h].st = "live" /\ hd'[h].error = NoError) =>
              /\ IsPrefix(to_path_buf(hd'[h]), hd'[h].target)
              /\ (last'.op = "new" /\ last'.h = h) =>
                     to_path_buf(hd'[h]) = hd'[h].target
              /\ (/\ Live(h)
                  /\ to_path_buf(hd[h]) = hd[h].target
                  /\ ~(last'.op = "remove" /\ last'.h = h)) =>
                     to_path_buf(hd'[h]) = hd'[h].target]_vars

C9_Witness ==
    /\ last.op = "keep"
    /\ hd[last.h].error = NoError
    /\ hd[last.h].base_path = hd[last.h].target
    /\ Len(hd[last.h].target) = 4
    /\ ~exists(fs, hd[last.h].target)

\* C10 as stated: a segment recorded as pending by resolution or by
\* add_subdir names a path that does not exist at that moment, and after a
\* successful resolution base exists.
C10_AsStated ==
    /\ (JustResolved /\ Resolved.error = NoError) =>
           /\ \A q \in PendingPaths(Resolved) : ~exists(fs, q)
           /\ exists(fs, Resolved.base_path)
    /\ (last.op = "with_subdir" /\ hd[last.h].subdirs # <<>>) =>
           ~exists(fs, to_path_buf(hd[last.h]))

\* C10 amended: as stated, except that after a successful resolution base
\* exists or is the empty path (a relative path none of whose ancestors
\* exists).
C10_PendingMissing ==
    /\ (JustResolved /\ Resolved.error = NoError) =>
           /\ \A q \in PendingPaths(Resolved) : ~exists(fs, q)
           /\ exists(fs, Resolved.base_path) \/ Resolved.base_path = <<>>
    /\ (last.op = "with_subdir" /\ hd[last.h].subdirs # <<>>) =>
           ~exists(fs, to_path_buf(hd[last.h]))

C10_Witness ==
    /\ last.op = "with_subdir"
    /\ hd[last.h].error = NoError
    /\ Len(hd[last.h].subdirs) = 2
    /\ exists(fs, hd[last.h].base_path)
    /\ ~exists(fs, to_path_buf(hd[last.h]))

\* ------------------------------------------------------------------ C11
Builders == {"new", "directory_new", "new_subdir", "keep", "clean",
             "with_gitignore", "with_subdir"}

\* C11 as stated: constructing a Directory and applying keep, clean,
\* with_gitignore or a subdirectory builder changes nothing on the file
\* system.
C11_AsStated ==
    [][last'.op \in Builders => fs' = fs]_vars

\* ------------------------------------------------------------------ C12
\* C12: keep() empties the pending list and makes the former resolved path
\* the base; a remove() or drop of a handle in that state deletes nothing,
\* so the directory initialize() created and what was written into it stay.
C12_KeptDeletesNothing ==
    [][/\ last'.op = "keep" =>
              /\ hd'[last'.h].subdirs = <<>>
              /\ hd'[last'.h].base_path = to_path_buf(hd[last'.h])
       /\ (IsRemoval(last') /\ hd[last'.h].subdirs = <<>>) =>
              /\ fs' = fs
              /\ last'.del = <<>>]_vars

\* a kept handle (no other actor has acted, so only keep() can have emptied
\* its pending list) whose directory was created by its initialize() and
\* holds a written file has run remove(): directory and file are there
C12_Witness ==
    /\ last.op = "remove"
    /\ last.del = <<>>
    /\ ext = 0
    /\ hd[1].st = "live"
    /\ hd[1].subdirs = <<>>
    /\ hd[1].base_path = <<ROOT, "a", "b">>
    /\ fs[<<"a", "b">>] = "dir"
    /\ fs[<<"a", "b", "a">>] = "file"

\* ------------------------------------------------------------------ C13
\* C13: make_persistent() is idempotent: on every handle state a second
\* application changes neither base, pending list nor error, and a keep()
\* right after a keep() of the same handle leaves the handle as it is.
C13_Idempotent ==
    [][/\ \A h \in Handles :
              hd'[h].st = "live" =>
                  make_persistent(make_persistent(hd'[h])) = make_persistent(hd'[h])
       /\ (last'.op = "keep" /\ last.op = "keep" /\ last'.h = last.h) =>
              hd' = hd]_vars

\* keep() has folded a non-empty pending list: the base is a path that does
\* not exist
C13_Witness ==
    /\ last.op = "keep"
    /\ hd[last.h].subdirs = <<>>
    /\ hd[last.h].base_path = <<ROOT, "a", "b", "a">>
    /\ ~exists(fs, <<ROOT, "a", "b">>)

\* ------------------------------------------------------------------ C14
\* C14: add_subdir(name) looks at the file system when it is called: if the
\* resolved path joined with name exists, that path becomes the base and the
\* pending list becomes empty; otherwise name becomes the last pending
\* segment and the base stays.  Either way the new resolved path is the old
\* one joined with name.
C14_AddSubdir ==
    [][last'.op = "with_subdir" =>
          \E s \in Names :
              LET old == hd[last'.h]
                  new == hd'[last'.h]
                  target_path == push(to_path_buf(old), s)
              IN  /\ to_path_buf(new) = target_path
                  /\ IF exists(fs, target_path)
                     THEN new.base_path = target_path /\ new.subdirs = <<>>
                     ELSE /\ new.base_path = old.base_path
                          /\ new.subdirs = Append(old.subdirs, s)]_vars

\* handle 1, resolved with pending segment b, got subdirectory a after the
\* other handle had created /a/b/a: b and a are folded into the base
C14_Witness ==
    /\ last.op = "with_subdir"
    /\ last.h = 1
    /\ steps = 4
    /\ hd[1].target = <<ROOT, "a", "b", "a">>
    /\ hd[1].base_path = <<ROOT, "a", "b", "a">>
    /\ hd[1].subdirs = <<>>
    /\ hd[2].st = "live"
    /\ is_dir(fs, <<ROOT, "a", "b", "a">>)

\* ------------------------------------------------------------------ C15
\* C15 as stated: initialize() returns Ok only if afterwards the resolved
\* path is a directory; when something that is no directory occupies the
\* resolved path it returns PathIsNotADirectory with the resolved path and
\* leaves the file system as it was.
C15_AsStated ==
    [][last'.op = "initialize" =>
          LET x == hd[last'.h]
          IN  /\ last'.res = "Ok" => is_dir(fs', to_path_buf(x))
              /\ (exists(fs, to_path_buf(x)) /\ ~is_dir(fs, to_path_buf(x))) =>
                     /\ last'.res = "PathIsNotADirectory"
                     /\ last'.path = to_path_buf(x)
                     /\ fs' = fs]_vars

\* C15: initialize() returns Ok only if afterwards the resolved path is a
\* directory, or clean_on_init is set and the resolved path has a `..` in it
\* (cleaning may then have deleted a directory the path goes through); when
\* something that is no directory occupies the resolved path it returns
\* PathIsNotADirectory with the resolved path and leaves the file system as
\* it was.
C15_InitializeVerifies ==
    [][last'.op = "initialize" =>
          LET x == hd[last'.h]
          IN  /\ last'.res = "Ok" =>
                     \/ is_dir(fs', to_path_buf(x))
                     \/ /\ x.clean_on_init
                        /\ \E i \in 1..Len(to_path_buf(x)) : to_path_buf(x)[i] = PARENT
              /\ (exists(fs, to_path_buf(x)) /\ ~is_dir(fs, to_path_buf(x))) =>
                     /\ last'.res = "PathIsNotADirectory"
                     /\ last'.path = to_path_buf(x)
                     /\ fs' = fs]_vars

\* initialize() has found the file another actor put at the pending path
C15_Witness ==
    /\ last.op = "initialize"
    /\ last.res = "PathIsNotADirectory"
    /\ hd[last.h].subdirs # <<>>
    /\ is_file(fs, to_path_buf(hd[last.h]))

\* ------------------------------------------------------------------ C16
\* C16: when a pending directory cannot be created, initialize() returns
\* DirectoryCreationError carrying the path it was creating (the resolved
\* path), the handle is unchanged, nothing but new directories has appeared,
\* and every directory on the way to the resolved path that could be created
\* is there afterwards (nothing is rolled back).
C16_CreationError ==
    [][last'.op = "initialize" =>
          LET x == hd[last'.h]
          IN  /\ (/\ x.subdirs # <<>>
                  /\ last'.res # "panic"
                  /\ ~exists(fs, to_path_buf(x))
                  /\ ~is_dir(fs', to_path_buf(x))) =>
                     last'.res = "DirectoryCreationError"
              /\ last'.res = "DirectoryCreationError" =>
                     /\ last'.path = to_path_buf(x)
                     /\ hd' = hd
                     /\ \A n \in Nodes :
                            fs'[n] # fs[n] =>
                                /\ fs[n] = "none"
                                /\ fs'[n] = "dir"
                     /\ \A q \in {SubSeq(to_path_buf(x), 1, k) :
                                      k \in 1..Len(to_path_buf(x))} :
                            (/\ is_dir(fs', parent(q))
                             /\ IsNode(Append(Lookup(fs', parent(q)), Last(q)))) =>
                                exists(fs', q)]_vars

\* initialize() has failed after creating some of the pending directories
C16_Witness ==
    /\ last.op = "initialize"
    /\ last.res = "DirectoryCreationError"
    /\ last.made # {}
    /\ \A n \in last.made : fs[n] = "dir"
    /\ hd[last.h].subdirs # <<>>

\* ------------------------------------------------------------------ C17
\* C17: Directory::initialize() creates, verifies, then cleans (if
\* clean_on_init), then writes .gitignore (if gitignore_on_init): after it
\* returned Ok with both flags set the resolved directory holds exactly the
\* file .gitignore with content "*\n", with clean_on_init alone it is empty.
C17_CleanThenGitignore ==
    [][(last'.op = "initialize" /\ last'.res = "Ok") =>
          LET x == hd[last'.h]
              \* the resolved directory: where the resolved path leads once
              \* it has been created, before anything is cleaned
              d == Lookup(directory_ensure_exists(fs, x).fs, to_path_buf(x))
          IN  /\ d \in Nodes
              /\ fs'[d] = "dir"
              /\ (x.clean_on_init /\ x.gitignore_on_init) =>
                     /\ Entries(fs', d) = {Append(d, GITIGNORE)}
                     /\ fs'[Append(d, GITIGNORE)] = IGNORE_ALL
              /\ (x.clean_on_init /\ ~x.gitignore_on_init) =>
                     Entries(fs', d) = {}]_vars

\* initialize() with both flags has returned Ok on a directory in which
\* another actor had put something: that is gone, .gitignore is there
C17_Witness ==
    /\ last.op = "initialize"
    /\ last.res = "Ok"
    /\ hd[last.h].st = "live"
    /\ hd[last.h].clean_on_init
    /\ hd[last.h].gitignore_on_init
    /\ LET d == Lookup(fs, to_path_buf(hd[last.h]))
       IN  /\ fs[Append(d, GITIGNORE)] = IGNORE_ALL
           /\ \E n \in foreign : IsPrefix(d, n) /\ n # d /\ fs[n] = "none"

\* ------------------------------------------------------------------ C18
EndsInParent(p) == p # <<>> /\ Last(p) = PARENT

\* C18 as stated: resolving a path whose last component is `..` fails with
\* MalformedPath in every file-system state; the handle has an empty base,
\* an empty pending list and the error.
C18_AsStated ==
    (JustResolved /\ EndsInParent(Resolved.target)) =>
        /\ Resolved.error.kind = "MalformedPath"
        /\ Resolved.base_path = <<>>
        /\ Resolved.subdirs = <<>>

\* C18: resolving a path whose last component is `..` and which does not
\* exist fails with MalformedPath of that path; the handle has an empty
\* base, an empty pending list and the error.
C18_ParentComponent ==
    (/\ JustResolved
     /\ EndsInParent(Resolved.target)
     /\ ~exists(fs, Resolved.target)) =>
        /\ Resolved.error = malformed_path(Resolved.target)
        /\ Resolved.base_path = <<>>
        /\ Resolved.subdirs = <<>>

\* /a/b/.. has been resolved with /a there and /a/b missing
C18_Witness ==
    /\ JustResolved
    /\ Resolved.target = <<ROOT, "a", "b", PARENT>>
    /\ fs[<<"a">>] = "dir"
    /\ fs[<<"a", "b">>] = "none"
    /\ Resolved.error.kind = "MalformedPath"

\* ------------------------------------------------------------------ C19
\* C19: resolving a path that exists, as a directory or as a regular file,
\* gives that path as base, an empty pending list and no error; remove() or
\* drop of a handle resolved that way deletes nothing.
C19_ExistingPath ==
    [][/\ (last'.op = "new" /\ exists(fs, hd'[last'.h].target)) =>
              /\ hd'[last'.h].error = NoError
              /\ hd'[last'.h].base_path = hd'[last'.h].target
              /\ hd'[last'.h].subdirs = <<>>
       /\ (/\ IsRemoval(last')
           /\ exists(fs, hd[last'.h].target)
           /\ hd[last'.h].base_path = hd[last'.h].target
           /\ hd[last'.h].subdirs = <<>>) =>
              /\ fs' = fs
              /\ last'.del = <<>>]_vars

\* another actor wrote the file /a/b, a handle was resolved for /a/b and
\* removed: the file is the base and is still there
C19_Witness ==
    /\ steps = 3
    /\ last.op = "remove"
    /\ hd[1].st = "live"
    /\ hd[1].target = <<ROOT, "a", "b">>
    /\ hd[1].base_path = <<ROOT, "a", "b">>
    /\ hd[1].subdirs = <<>>
    /\ is_file(fs, <<ROOT, "a", "b">>)

C21_AsStated ==
    [][(last'.op = "write_bytes" /\ is_absolute(last'.path)) =>
           /\ last'.res = "PathIsAbsolute"
           /\ fs' = fs
           /\ hd' = hd]_vars

\* ------------------------------------------------------------------ C22
\* C22: write_json replaces the extension and never appends it: called with
\* data, data.json or data.txt it writes when the resolved directory exists
\* and the object serializes, and the one node that changes is the file
\* data.json in the resolved directory (the working directory when the
\* resolved path is empty); no file under the name given appears.
C22_ExtensionReplaced ==
    [][last'.op = "write_json" =>
          LET x == hd[last'.h]
              d == IF to_path_buf(x) = <<>> THEN Cwd
                   ELSE Lookup(fs, to_path_buf(x))
              name == Last(last'.path)
          IN  /\ last'.res = "Ok" =>
                    /\ d \in Nodes
                    /\ fs'[Append(d, "data.json")] \in FileKinds
                    /\ \A n \in Nodes \ {Append(d, "data.json")} : fs'[n] = fs[n]
                    /\ name # "data.json" =>
                           fs'[Append(d, name)] = fs[Append(d, name)]
              /\ (is_dir(fs, to_path_buf(x)) /\ last'.res # "Ok") =>
                     write_json(fs, x, last'.path, FALSE).fs = fs']_vars

\* write_json("data.txt") into the initialized directory /a/b: data.json is
\* there, data.txt and data are not
C22_Witness ==
    /\ last.op = "write_json"
    /\ last.res = "Ok"
    /\ last.path = <<"data.txt">>
    /\ to_path_buf(hd[1]) = <<ROOT, "a", "b">>
    /\ fs[<<"a", "b", "data.json">>] = "file"
    /\ fs[<<"a", "b", "data.txt">>] = "none"
    /\ fs[<<"a", "b", "data">>] = "none"

\* ------------------------------------------------------------------ C23
\* C23 as stated: the value remove() returns tells a removal that stopped
\* early from a complete one: a remove() that leaves pending segments behind
\* does not return what a complete removal returns.
C23_AsStated ==
    [][(last'.op = "remove" /\ hd'[last'.h].subdirs # <<>>) =>
           last'.res # "Ok"]_vars

\* ------------------------------------------------------------------ C24
\* C24 as stated: no remove() or drop of any handle deletes the directory at
\* the resolved path of a persistent handle (a live handle with an empty
\* pending list).
C24_AsStated ==
    [][IsRemoval(last') =>
           \A g \in Handles :
               (/\ hd[g].st = "live"
                /\ hd[g].error = NoError
                /\ hd[g].subdirs = <<>>
                /\ is_dir(fs, to_path_buf(hd[g]))) =>
                   is_dir(fs', to_path_buf(hd[g]))]_vars

\* ------------------------------------------------------------------ C25
\* handle h is nested in handle g: g has pending segments and the resolved
\* path of h lies strictly beneath the resolved path of g
Nested(h, g) ==
    /\ h # g
    /\ Live(h)
    /\ Live(g)
    /\ hd[g].subdirs # <<>>
    /\ to_path_buf(hd[h]) # to_path_buf(hd[g])
    /\ IsPrefix(to_path_buf(hd[g]), to_path_buf(hd[h]))

\* C25 as stated: when the nested (child) handle is removed while the parent
\* handle is still live, the removal deletes no directory the parent uses as
\* base or as a pending prefix.
C25_AsStated ==
    [][\A h \in Handles, g \in Handles :
          (IsRemoval(last') /\ last'.h = h /\ Nested(h, g)) =>
              \A q \in {hd[g].base_path} \cup PendingPaths(hd[g]) :
                  exists(fs, q) => exists(fs', q)]_vars

\* ------------------------------------------------------------------ C26
\* C26: remove() works bottom-up and stops at the first failure: the pending
\* list afterwards is a prefix of the list before, the i-th deletion is the
\* directory of the i-th segment from the end (one deletion per popped
\* segment, deepest first, nothing else changes), and the list is empty or
\* the directory of its last remaining segment cannot be removed.
C26_BottomUp ==
    [][last'.op = "remove" =>
          LET x == hd[last'.h]
              y == hd'[last'.h]
              n == Len(x.subdirs)
              k == Len(last'.del)
          IN  /\ IsPrefix(y.subdirs, x.subdirs)
              /\ y.base_path = x.base_path
              /\ k = n - Len(y.subdirs)
              /\ \A i \in 1..k :
                     LET q == x.base_path \o SubSeq(x.subdirs, 1, n - i + 1)
                     IN  /\ last'.del[i].node = Lookup(fs, q)
                         /\ last'.del[i].kind = "dir"
                         /\ fs[Lookup(fs, q)] = "dir"
                         /\ fs'[Lookup(fs, q)] = "none"
              /\ fs' = Without(fs, {last'.del[i].node : i \in 1..k})
              /\ \/ y.subdirs = <<>>
                 \/ ~remove_dir(fs', to_path_buf(y)).ok]_vars

\* a remove() that deleted its own leaf and then stopped at the directory it
\* shares with another handle
C26_Witness ==
    /\ last.op = "remove"
    /\ Len(last.del) = 1
    /\ hd[last.h].subdirs = <<"b">>
    /\ hd[last.h].target = <<ROOT, "a", "b", "a">>
    /\ is_dir(fs, <<ROOT, "a", "b", "b">>)

\* ------------------------------------------------------------------ C27
\* C27 as stated, for the operation that follows keep(): the pending list
\* keep() has emptied is still empty after an initialize, remove, keep or
\* with_subdir of the same handle.
C27_AsStated ==
    [][\A h \in Handles :
          (/\ last.op = "keep"
           /\ last.h = h
           /\ last'.h = h
           /\ last'.op \in {"initialize", "remove", "keep", "with_subdir"}) =>
              hd'[h].subdirs = <<>>]_vars

\* C27: a persisted handle (empty pending list) keeps its empty list and its
\* base under initialize, remove and keep, and its remove() or drop deletes
\* nothing; with_subdir of a name whose path exists moves the base there and
\* keeps the list empty, while with_subdir of a missing name leaves the base
\* and records the name as the one pending segment.
C27_PersistedTerminal ==
    [][\A h \in Handles :
          (last'.h = h /\ Live(h) /\ hd[h].subdirs = <<>>) =>
              /\ last'.op \in {"initialize", "remove", "keep"} =>
                     /\ hd'[h].subdirs = <<>>
                     /\ hd'[h].base_path = hd[h].base_path
              /\ IsRemoval(last') => (fs' = fs /\ last'.del = <<>>)
              /\ last'.op = "with_subdir" =>
                     \E s \in Names :
                         /\ hd'[h].target = push(hd[h].base_path, s)
                         /\ IF exists(fs, push(hd[h].base_path, s))
                            THEN /\ hd'[h].base_path = push(hd[h].base_path, s)
                                 /\ hd'[h].subdirs = <<>>
                            ELSE /\ hd'[h].base_path = hd[h].base_path
                                 /\ hd'[h].subdirs = <<s>>]_vars

\* Path::new("b").keep().with_subdir("a") with b missing: the kept path b is
\* the base and a is pending again
C27_Witness ==
    /\ steps = 3
    /\ last.op = "with_subdir"
    /\ hd[1].base_path = <<"b">>
    /\ hd[1].subdirs = <<"a">>

\* ------------------------------------------------------------------ C28
\* the walk from p towards the root arrives at the empty path, the one
\* missing path without a parent: p is relative, none of its prefixes exists
\* and every prefix ends in a name
WalkReachesEmpty(f, p) ==
    /\ ~is_absolute(p)
    /\ \A k \in 1..Len(p) :
           /\ ~exists(f, SubSeq(p, 1, k))
           /\ has_file_name(SubSeq(p, 1, k))

\* C28 as stated: when the walk reaches a missing path that has no parent,
\* resolution fails with MalformedPath.
C28_AsStated ==
    (JustResolved /\ WalkReachesEmpty(fs, Resolved.target)) =>
        Resolved.error.kind = "MalformedPath"

\* C28: when the walk reaches a missing path that has no parent, resolution
\* ends there without error and with the empty base; MalformedPath is only
\* returned for a missing path that has a parent and no file name.
C28_NoParentIsNoError ==
    JustResolved =>
        /\ WalkReachesEmpty(fs, Resolved.target) =>
               /\ Resolved.error = NoError
               /\ Resolved.base_path = <<>>
        /\ Resolved.error # NoError =>
               /\ Resolved.error.kind = "MalformedPath"
               /\ has_parent(Resolved.error.path)
               /\ ~has_file_name(Resolved.error.path)
               /\ ~exists(fs, Resolved.error.path)
               /\ IsPrefix(Resolved.error.path, Resolved.target)

\* the relative path a/b has been resolved with neither a nor a/b there
C28_Witness ==
    /\ JustResolved
    /\ Resolved.target = <<"a", "b">>
    /\ fs[<<"a">>] = "none"
    /\ Resolved.error = NoError
    /\ Resolved.base_path = <<>>
    /\ fs[<<"b">>] = "dir"

\* ------------------------------------------------------------------ C29
\* no non-empty prefix of the relative path p exists
NothingExists(f, p) ==
    /\ ~is_absolute(p)
    /\ \A k \in 1..Len(p) : ~exists(f, SubSeq(p, 1, k))

\* C29 as stated: the empty path, and every relative path none of whose
\* components exists, resolves without error to the empty base with all its
\* components pending, in order.
C29_AsStated ==
    (JustResolved /\ NothingExists(fs, Resolved.target)) =>
        /\ Resolved.error = NoError
        /\ Resolved.base_path = <<>>
        /\ Resolved.subdirs = Resolved.target

\* C29: the empty path resolves to the empty base with nothing pending; a
\* relative path made of normal names only, none of whose prefixes exists,
\* resolves without error to the empty base with all its components pending,
\* in order.
C29_RelativeFromNothing ==
    (/\ JustResolved
     /\ NothingExists(fs, Resolved.target)
     /\ \A i \in 1..Len(Resolved.target) : Resolved.target[i] \in Names) =>
        /\ Resolved.error = NoError
        /\ Resolved.base_path = <<>>
        /\ Resolved.subdirs = Resolved.target
        /\ Resolved.target = <<>> => Resolved.subdirs = <<>>

\* a/b/a has been resolved with a missing: three pending segments over the
\* empty base
C29_Witness ==
    /\ JustResolved
    /\ Resolved.target = <<"a", "b", "a">>
    /\ fs[<<"a">>] = "none"
    /\ Resolved.base_path = <<>>
    /\ Resolved.subdirs = <<"a", "b", "a">>

\* ------------------------------------------------------------------ C30
\* C30: resolution and removal end after a bounded number of steps: in every
\* file-system state closest_ancestor is called at most (components + 1)
\* times for a path, and a remove() makes at most as many removal attempts
\* as the handle has pending segments.
C30_Terminates ==
    [][/\ \A p \in Targets : closest_ancestor_calls(fs, p) <= Len(p) + 1
       /\ last'.op = "new" =>
              closest_ancestor_calls(fs, hd'[last'.h].target)
                  <= Len(hd'[last'.h].target) + 1
       /\ last'.op = "remove" =>
              /\ remove_attempts(fs, hd[last'.h]) <= Len(hd[last'.h].subdirs)
              /\ Len(last'.del) <= remove_attempts(fs, hd[last'.h])]_vars

\* /a/b/a was resolved with /a/b missing, initialized and removed with two
\* attempts; resolving it again takes three calls
C30_Witness ==
    /\ last.op = "remove"
    /\ Len(last.del) = 2
    /\ hd[last.h].subdirs = <<>>
    /\ hd[last.h].target = <<ROOT, "a", "b", "a">>
    /\ closest_ancestor_calls(fs, hd[last.h].target) = 3

\* ------------------------------------------------------------------ C31
\* C31: remove_contents() returns PathDoesNotExist when the resolved path is
\* missing and PathIsNotADirectory when it is a regular file, and the file
\* system is unchanged in both cases; on success every entry of the resolved
\* directory (file or directory subtree) is gone while the directory itself
\* and everything outside it are as before.
C31_RemoveContents ==
    [][last'.op = "remove_contents" =>
          LET p == to_path_buf(hd[last'.h])
              d == Lookup(fs, p)
          IN  /\ ~exists(fs, p) =>
                     /\ last'.res = "PathDoesNotExist"
                     /\ last'.path = p
                     /\ fs' = fs
              /\ is_file(fs, p) =>
                     /\ last'.res = "PathIsNotADirectory"
                     /\ last'.path = p
                     /\ fs' = fs
              /\ last'.res = "Ok" =>
                     /\ is_dir(fs, p)
                     /\ fs'[d] = "dir"
                     /\ Entries(fs', d) = {}
                     /\ \A n \in Nodes :
                            IF IsPrefix(d, n) /\ n # d THEN fs'[n] = "none"
                            ELSE fs'[n] = fs[n]
              /\ is_dir(fs, p) => last'.res = "Ok"]_vars

\* remove_contents() has emptied a directory that held a subdirectory with a
\* file in it while a directory outside it is still there
C31_Witness ==
    /\ last.op = "remove_contents"
    /\ last.res = "Ok"
    /\ to_path_buf(hd[last.h]) = <<"b">>
    /\ {<<"b", "b">>, <<"b", "b", "a">>} \subseteq last.gone
    /\ fs[<<"b">>] = "dir"
    /\ fs[<<"a">>] = "dir"

\* ------------------------------------------------------------------ C32
\* C32: when the directory of the deepest pending segment does not exist
\* (never initialized, or initialize() failed part-way), remove() and drop
\* delete nothing and remove() leaves the pending list as it is, even when
\* shallower pending directories exist and are empty; the directories a
\* partially failed initialize() created are therefore still there after the
\* drop.
C32_MissingLeafStops ==
    [][(/\ IsRemoval(last')
        /\ hd[last'.h].subdirs # <<>>
        /\ ~exists(fs, to_path_buf(hd[last'.h]))) =>
           /\ fs' = fs
           /\ last'.del = <<>>
           /\ last'.op = "remove" => hd'[last'.h] = hd[last'.h]]_vars

\* the handle for the path that is too deep was resolved, its initialize()
\* created two pending directories and failed at the third, and it was
\* dropped: both directories, empty, are there
C32_Witness ==
    /\ last.op = "drop"
    /\ last.del = <<>>
    /\ steps = 3
    /\ hd[1].st = "dropped"
    /\ fs[<<"a", "a">>] = "dir"
    /\ fs[<<"a", "a", "a">>] = "dir"
    /\ Entries(fs, <<"a", "a", "a">>) = {}

\* ------------------------------------------------------------------ C33
\* handle B was resolved, for a sibling of A's target, when the directory
\* `shared` above both targets existed while A had been resolved when it was
\* missing: shared is the base of B and a pending segment of A
ResolvedLater(A, B) ==
    /\ A # B
    /\ hd[A].st = "live"
    /\ hd[B].st = "live"
    /\ Len(hd[A].target) > 2
    /\ Len(hd[B].target) = Len(hd[A].target)
    /\ Front(hd[B].target) = Front(hd[A].target)
    /\ Last(hd[B].target) # Last(hd[A].target)
    /\ Last(hd[B].target) \in Names
    /\ Last(hd[A].target) \in Names
    /\ hd[B].base_path = Front(hd[B].target)
    /\ hd[A].base_path = Front(Front(hd[A].target))

\* C33 as stated: with B resolved after A was initialized, shared is in B's
\* base and not in its pending list; when A is removed before B, shared is
\* there after B's removal too; when B is removed before A, the removal of A
\* deletes A's leaf and shared and stops at base.
C33_AsStated ==
    [][\A A \in Handles, B \in Handles :
          ResolvedLater(A, B) =>
              /\ hd[B].subdirs \in {<<>>, <<Last(hd[B].target)>>}
              /\ (/\ IsRemoval(last')
                  /\ last'.h = B
                  /\ hd[B].subdirs = <<Last(hd[B].target)>>
                  /\ Len(hd[A].subdirs) < 2) =>
                     is_dir(fs', hd[B].base_path)
              /\ (/\ IsRemoval(last')
                  /\ last'.h = A
                  /\ hd[B].subdirs = <<>>
                  /\ Len(hd[A].subdirs) = 2
                  /\ is_dir(fs, hd[A].target)) =>
                     /\ ~exists(fs', hd[B].base_path)
                     /\ is_dir(fs', hd[A].base_path)]_vars

\* ------------------------------------------------------------------ C34
\* the second of two initialize() calls of the same kind on the same handle,
\* with nothing done in between
SecondInitialize(l, m) ==
    /\ l.op = "initialize"
    /\ m.op = "initialize"
    /\ l.h = m.h
    /\ l.impl = m.impl

\* C34 as stated: with clean_on_init false, a second initialize() on an
\* unchanged file system returns the same result and changes nothing, and
\* initialize() on a resolved path that is a directory, when it returns,
\* has created nothing and left what the directory holds as it is.
C34_AsStated ==
    [][(last'.op = "initialize" /\ ~hd[last'.h].clean_on_init) =>
          /\ SecondInitialize(last, last') =>
                 /\ last'.res = last.res
                 /\ last'.path = last.path
                 /\ fs' = fs
          /\ (is_dir(fs, to_path_buf(hd[last'.h])) /\ last'.res # "panic") =>
                 /\ last'.made = {}
                 /\ fs' = fs]_vars

\* C34: with clean_on_init false, a second initialize() on an unchanged file
\* system returns the same result and changes nothing; initialize() on a
\* resolved path that is a directory changes nothing either, except that
\* Directory::initialize with gitignore_on_init set creates, or overwrites,
\* the file .gitignore of that directory (and panics if it cannot write it).
C34_Idempotent ==
    [][(last'.op = "initialize" /\ ~hd[last'.h].clean_on_init) =>
          /\ SecondInitialize(last, last') =>
                 /\ last'.res = last.res
                 /\ last'.path = last.path
                 /\ fs' = fs
          /\ (is_dir(fs, to_path_buf(hd[last'.h])) /\ last'.res # "panic") =>
                 \A n \in Nodes :
                     fs'[n] # fs[n] =>
                         /\ last'.impl = "Directory"
                         /\ hd[last'.h].gitignore_on_init
                         /\ n = Append(Lookup(fs, to_path_buf(hd[last'.h])),
                                       GITIGNORE)
                         /\ fs[n] \in {"none"} \cup FileKinds
                         /\ fs'[n] = IGNORE_ALL]_vars

\* Directory::initialize with gitignore_on_init set has run twice in a row on
\* the handle for /a/b: the second run has created nothing
C34_Witness ==
    /\ last.op = "initialize"
    /\ last.impl = "Directory"
    /\ last.res = "Ok"
    /\ last.made = {}
    /\ steps = 4
    /\ hd[1].target = <<ROOT, "a", "b">>
    /\ hd[1].gitignore_on_init
    /\ ~hd[1].clean_on_init
    /\ fs[<<"a", "b", GITIGNORE>>] = IGNORE_ALL

\* ------------------------------------------------------------------ C35
\* the state Path::new leaves behind when resolution fails
Failed(x) ==
    /\ x.st = "live"
    /\ x.error # NoError
    /\ x.base_path = <<>>
    /\ x.subdirs = <<>>

\* C35: a failed resolution records the error with an empty base and an
\* empty pending list, and no operation on a handle in that state changes the
\* file system: initialize() returns an error and creates nothing, remove()
\* and drop delete nothing, and keep() and remove() leave the handle, with
\* its recorded error, as it is.
C35_FailedHandleInert ==
    [][/\ (last'.op = "new" /\ last'.res # "None") => Failed(hd'[last'.h])
       /\ \A h \in Handles :
              (Failed(hd[h]) /\ last'.h = h) =>
                  /\ fs' = fs
                  /\ last'.op = "initialize" =>
                         /\ last'.res \notin {"Ok", "panic"}
                         /\ last'.made = {}
                  /\ IsRemoval(last') => last'.del = <<>>
                  /\ last'.op \in {"keep", "remove"} =>
                         /\ hd'[h].error = hd[h].error
                         /\ Failed(hd'[h])]_vars

\* the handle for /a/b/.. was resolved while /a/b was missing and has been
\* initialized: the error is still recorded and initialize() has failed
C35_Witness ==
    /\ last.op = "initialize"
    /\ last.res = "PathIsNotADirectory"
    /\ last.made = {}
    /\ Failed(hd[last.h])
    /\ hd[last.h].error = malformed_path(<<ROOT, "a", "b", PARENT>>)
    /\ fs = Fs0

\* ------------------------------------------------------------------ C36
\* C36: for a handle whose pending segments are single names, the loop of
\* Directory's Drop (delete the full path, pop one path component, until the
\* path is base_path) and the loop of Path::remove (delete the full path, pop
\* one pending segment, until the list is empty) started on the same tree
\* delete the same directories in the same order and leave the same tree;
\* whichever of the two has just run, the other would have done the same.
C36_LoopsEquivalent ==
    [][IsRemoval(last') =>
          LET x == hd[last'.h]
              r == remove(fs, x, <<>>)
              d == drop_loop(fs, x.base_path, to_path_buf(x), <<>>)
          IN  /\ \A i \in 1..Len(x.subdirs) : x.subdirs[i] \in Names
              /\ r.del = d.del
              /\ r.fs = d.fs
              /\ last'.del = r.del
              /\ fs' = d.fs]_vars

\* a drop has deleted the two pending directories of its handle, deepest
\* first, and stopped at the base
C36_Witness ==
    /\ last.op = "drop"
    /\ Len(last.del) = 2
    /\ last.del[1].node = <<"a", "b", "a">>
    /\ last.del[2].node = <<"a", "b">>
    /\ fs[<<"a", "b">>] = "none"
    /\ fs[<<"a">>] = "dir"

====
